---- MODULE Spec2Model ----
(***************************************************************************)
(* A model of add_metadata_to_python_using_parquet_and_arrow.py: a pandas  *)
(* DataFrame is converted to an Arrow table, a JSON-encoded custom         *)
(* metadata record is merged into the table's schema metadata under a      *)
(* namespaced key, the table is written to example.parquet, read back, and *)
(* the DataFrame and the custom metadata record are restored.              *)
(*                                                                         *)
(* Text is a sequence of Unicode code points, a byte string a sequence of  *)
(* numbers 0..255, a Python dict a sequence of <<key, value>> pairs in     *)
(* insertion order, a JSON value a record [t |-> tag, v |-> payload].      *)
(***************************************************************************)
EXTENDS Integers, Sequences, FiniteSets, TLC

\* ------------------------------------------------------------------ bounds

\* Longest text drawn for a string of a custom metadata record.
MaxStrLen == 2
\* Longest list drawn for a custom metadata record.
MaxListLen == 2

\* --------------------------------------------------------- Python dict

NoBytes == <<>>

RECURSIVE ConcatRange(_, _, _)
\* The concatenation of ss[lo], ..., ss[hi].
ConcatRange(ss, lo, hi) ==
    IF lo > hi THEN <<>>
    ELSE IF lo = hi THEN ss[lo]
    ELSE ConcatRange(ss, lo, (lo + hi) \div 2)
         \o ConcatRange(ss, (lo + hi) \div 2 + 1, hi)

\* The concatenation of a sequence of sequences.
Concat(ss) == ConcatRange(ss, 1, Len(ss))

DictKeys(d) == {d[i][1] : i \in 1..Len(d)}

DictHas(d, k) == k \in DictKeys(d)

DictIndex(d, k) == CHOOSE i \in 1..Len(d) : d[i][1] = k

\* d[k] for a key that is present.
DictValue(d, k) == d[DictIndex(d, k)][2]

\* d[k] = v: an existing key keeps its position and takes the new value, a
\* new key is appended.
DictSetItem(d, k, v) ==
    IF DictHas(d, k) THEN [d EXCEPT ![DictIndex(d, k)] = <<k, v>>]
    ELSE Append(d, <<k, v>>)

RECURSIVE DictUpdate(_, _)
\* The items of e stored into d one by one, in e's order.
DictUpdate(d, e) ==
    IF e = <<>> THEN d
    ELSE DictUpdate(DictSetItem(d, Head(e)[1], Head(e)[2]), Tail(e))

\* Whether no key occurs twice among the pairs of d.
UniqueKeys(d) == \A i, j \in 1..Len(d) : d[i][1] = d[j][1] => i = j

\* A lookup in the manner of d.get(k, b'{}'): an absent key gives a default.
DictGetItemDefault(d, k) ==
    [ok |-> TRUE, v |-> IF DictHas(d, k) THEN DictValue(d, k) ELSE <<123, 125>>]

\* d[k], which raises KeyError for a key that is absent.
DictGetItem(d, k) ==
    IF DictHas(d, k) THEN [ok |-> TRUE, v |-> DictValue(d, k)]
    ELSE [ok |-> FALSE, v |-> NoBytes]

\* ------------------------------------------------------ str.encode (UTF-8)

Utf8Char(c) ==
    IF c < 128 THEN <<c>>
    ELSE IF c < 2048 THEN <<192 + (c \div 64), 128 + (c % 64)>>
    ELSE IF c < 65536
        THEN <<224 + (c \div 4096), 128 + ((c \div 64) % 64), 128 + (c % 64)>>
    ELSE <<240 + (c \div 262144), 128 + ((c \div 4096) % 64),
           128 + ((c \div 64) % 64), 128 + (c % 64)>>

\* s.encode(): the UTF-8 bytes of a text.
StrEncode(s) == Concat([i \in 1..Len(s) |-> Utf8Char(s[i])])

IsCont(b, i) == i <= Len(b) /\ b[i] >= 128 /\ b[i] < 192

\* The number of bytes of the character whose first byte is c, 0 for a byte
\* that starts no character.
Utf8Len(c) ==
    IF c < 128 THEN 1 ELSE IF c >= 192 /\ c < 224 THEN 2
    ELSE IF c >= 224 /\ c < 240 THEN 3 ELSE IF c >= 240 /\ c < 248 THEN 4 ELSE 0

\* The character the n bytes from position i on stand for.
Utf8CodePoint(b, i, n) ==
    IF n = 1 THEN b[i]
    ELSE IF n = 2 THEN (b[i] - 192) * 64 + (b[i + 1] - 128)
    ELSE IF n = 3
        THEN (b[i] - 224) * 4096 + (b[i + 1] - 128) * 64 + (b[i + 2] - 128)
    ELSE (b[i] - 240) * 262144 + (b[i + 1] - 128) * 4096
         + (b[i + 2] - 128) * 64 + (b[i + 3] - 128)

Distance(i, j) == IF i < j THEN j - i ELSE i - j

RECURSIVE Utf8DecodeRange(_, _, _)
\* The text of the bytes b[lo..hi], read as whole characters: the range is
\* cut at a byte that starts a character until it holds one character.
Utf8DecodeRange(b, lo, hi) ==
    IF lo > hi THEN [ok |-> TRUE, s |-> <<>>]
    ELSE LET cuts == {j \in (lo + 1)..hi : ~IsCont(b, j)}
         IN IF cuts = {}
            THEN IF Utf8Len(b[lo]) = hi - lo + 1
                 THEN [ok |-> TRUE, s |-> <<Utf8CodePoint(b, lo, hi - lo + 1)>>]
                 ELSE [ok |-> FALSE, s |-> <<>>]
            ELSE LET m == CHOOSE j \in cuts : \A k \in cuts :
                              Distance(j, (lo + hi) \div 2) <= Distance(k, (lo + hi) \div 2)
                     l == Utf8DecodeRange(b, lo, m - 1)
                     r == Utf8DecodeRange(b, m, hi)
                 IN [ok |-> l.ok /\ r.ok, s |-> l.s \o r.s]

\* b.decode('utf-8'); ok is FALSE for bytes that are not UTF-8.
Utf8Decode(b, i) == Utf8DecodeRange(b, i, Len(b))

\* ------------------------------------------------------------ JSON values

\* A value is a record of one field, named after its kind.
JStr(s) == [str |-> s]
JInt(n) == [int |-> n]
JBool(b) == [bool |-> b]
JNull == [null |-> 0]
JList(xs) == [list |-> xs]
\* A dict with text keys: a sequence of <<key text, value>> pairs.
JDict(ps) == [dict |-> ps]
\* A float, kept as the text of the number.
JFloat(s) == [float |-> s]
\* A Python object json does not serialize (a set, a datetime, ...).
JObj == [obj |-> 0]
\* A variable not yet assigned.
Unset == [unset |-> 0]

Kind(x) == CHOOSE k \in DOMAIN x : TRUE

Val(x) == x[Kind(x)]

\* ------------------------------------------------------------- json.dumps

HexDigit(n) == IF n < 10 THEN 48 + n ELSE 87 + n

Hex4(n) == <<HexDigit(n \div 4096), HexDigit((n \div 256) % 16),
             HexDigit((n \div 16) % 16), HexDigit(n % 16)>>

\* One character of a text, without escaping anything but the quote.
EscapeCharRaw(c) == IF c = 34 THEN <<92, 34>> ELSE <<c>>

\* One character of a text as json.dumps writes it under ensure_ascii.
EscapeChar(c) ==
    IF c = 34 THEN <<92, 34>>
    ELSE IF c = 92 THEN <<92, 92>>
    ELSE IF c = 10 THEN <<92, 110>>
    ELSE IF c = 13 THEN <<92, 114>>
    ELSE IF c = 9 THEN <<92, 116>>
    ELSE IF c = 12 THEN <<92, 102>>
    ELSE IF c = 8 THEN <<92, 98>>
    ELSE IF c >= 32 /\ c <= 126 THEN <<c>>
    ELSE IF c < 65536 THEN <<92, 117>> \o Hex4(c)
    ELSE <<92, 117>> \o Hex4(55296 + ((c - 65536) \div 1024))
         \o <<92, 117>> \o Hex4(56320 + ((c - 65536) % 1024))

EncodeString(s) ==
    <<34>> \o Concat([i \in 1..Len(s) |-> EscapeChar(s[i])]) \o <<34>>

RECURSIVE Digits(_)
Digits(n) == IF n < 10 THEN <<48 + n>> ELSE Digits(n \div 10) \o <<48 + (n % 10)>>

EncodeInt(n) == IF n < 0 THEN <<45>> \o Digits(0 - n) ELSE Digits(n)

RECURSIVE Join(_, _)
\* The texts of ss with sep between them.
Join(ss, sep) ==
    IF ss = <<>> THEN <<>>
    ELSE IF Len(ss) = 1 THEN ss[1]
    ELSE ss[1] \o sep \o Join(Tail(ss), sep)

RECURSIVE JsonEncode(_)
\* The text json.dumps writes for a value; ok is FALSE where it raises
\* TypeError.
JsonEncode(x) ==
    IF Kind(x) = "str" THEN [ok |-> TRUE, s |-> EncodeString(Val(x))]
    ELSE IF Kind(x) = "int" THEN [ok |-> TRUE, s |-> EncodeInt(Val(x))]
    ELSE IF Kind(x) = "bool"
        THEN [ok |-> TRUE,
              s |-> IF Val(x) THEN <<116, 114, 117, 101>>
                    ELSE <<102, 97, 108, 115, 101>>]
    ELSE IF Kind(x) = "null" THEN [ok |-> TRUE, s |-> <<110, 117, 108, 108>>]
    ELSE IF Kind(x) = "list"
        THEN LET es == [i \in 1..Len(Val(x)) |-> JsonEncode(Val(x)[i])]
             IN [ok |-> \A i \in 1..Len(es) : es[i].ok,
                 s |-> <<91>> \o Join([i \in 1..Len(es) |-> es[i].s], <<44, 32>>)
                       \o <<93>>]
    ELSE IF Kind(x) = "dict"
        THEN LET es == [i \in 1..Len(Val(x)) |-> JsonEncode(Val(x)[i][2])]
             IN [ok |-> \A i \in 1..Len(es) : es[i].ok,
                 s |-> <<123>>
                       \o Join([i \in 1..Len(es) |->
                                   EncodeString(Val(x)[i][1]) \o <<58, 32>> \o es[i].s],
                               <<44, 32>>)
                       \o <<125>>]
    ELSE [ok |-> FALSE, s |-> <<>>]

\* json.dumps(x)
JsonDumps(x) == JsonEncode(x)

\* ------------------------------------------------------------- json.loads

ParseFail == [ok |-> FALSE, v |-> JNull, i |-> 0]

IsWs(c) == c \in {32, 9, 10, 13}

IsDigit(c) == c >= 48 /\ c <= 57

RECURSIVE SkipWs(_, _)
SkipWs(t, i) == IF i <= Len(t) /\ IsWs(t[i]) THEN SkipWs(t, i + 1) ELSE i

\* Whether the text lit stands in t at position i.
Matches(t, i, lit) ==
    i + Len(lit) - 1 <= Len(t) /\ SubSeq(t, i, i + Len(lit) - 1) = lit

IsHex(c) == IsDigit(c) \/ (c >= 97 /\ c <= 102) \/ (c >= 65 /\ c <= 70)

HexVal(c) == IF IsDigit(c) THEN c - 48 ELSE IF c >= 97 THEN c - 87 ELSE c - 55

\* Whether four hex digits stand in t from position i on.
HasHex4(t, i) == i + 3 <= Len(t) /\ \A k \in 0..3 : IsHex(t[i + k])

Hex4Val(t, i) == HexVal(t[i]) * 4096 + HexVal(t[i + 1]) * 256
                 + HexVal(t[i + 2]) * 16 + HexVal(t[i + 3])

\* The character a one-letter escape stands for, 0 for an invalid escape.
Backslash(e) ==
    IF e = 34 THEN 34 ELSE IF e = 92 THEN 92 ELSE IF e = 47 THEN 47
    ELSE IF e = 98 THEN 8 ELSE IF e = 102 THEN 12 ELSE IF e = 110 THEN 10
    ELSE IF e = 114 THEN 13 ELSE IF e = 116 THEN 9 ELSE 0

\* The result r of scanning the rest of a string, with c put before it.
Prepend(c, r) == IF r.ok THEN [r EXCEPT !.v = <<c>> \o r.v] ELSE ParseFail

IsHighSurrogate(u) == u >= 55296 /\ u <= 56319

IsLowSurrogate(u) == u >= 56320 /\ u <= 57343

\* The pair joined without the offset of the planes beyond the basic one.
SurrogatePairNoOffset(u, u2) == (u - 55296) * 1024 + (u2 - 56320)

\* The character a high and a low surrogate stand for together.
SurrogatePair(u, u2) == 65536 + (u - 55296) * 1024 + (u2 - 56320)

RECURSIVE ScanString(_, _)
\* The text of a JSON string whose opening quote stands before position i;
\* i of the result is the position after the closing quote.
ScanString(t, i) ==
    IF i > Len(t) THEN ParseFail
    ELSE IF t[i] = 34 THEN [ok |-> TRUE, v |-> <<>>, i |-> i + 1]
    ELSE IF t[i] < 32 THEN ParseFail
    ELSE IF t[i] # 92 THEN Prepend(t[i], ScanString(t, i + 1))
    ELSE IF i + 1 > Len(t) THEN ParseFail
    ELSE IF t[i + 1] # 117
        THEN IF Backslash(t[i + 1]) = 0 THEN ParseFail
             ELSE Prepend(Backslash(t[i + 1]), ScanString(t, i + 2))
    ELSE IF ~HasHex4(t, i + 2) THEN ParseFail
    ELSE IF IsHighSurrogate(Hex4Val(t, i + 2)) /\ Matches(t, i + 6, <<92, 117>>)
        THEN IF ~HasHex4(t, i + 8) THEN ParseFail
             ELSE IF IsLowSurrogate(Hex4Val(t, i + 8))
                 THEN Prepend(SurrogatePair(Hex4Val(t, i + 2), Hex4Val(t, i + 8)),
                              ScanString(t, i + 12))
             ELSE Prepend(Hex4Val(t, i + 2), ScanString(t, i + 6))
    ELSE Prepend(Hex4Val(t, i + 2), ScanString(t, i + 6))

RECURSIVE DigitsEnd(_, _)
\* The position after the digits that start at i.
DigitsEnd(t, i) == IF i <= Len(t) /\ IsDigit(t[i]) THEN DigitsEnd(t, i + 1) ELSE i

RECURSIVE DigitsVal(_)
DigitsVal(ds) ==
    IF ds = <<>> THEN 0
    ELSE DigitsVal(SubSeq(ds, 1, Len(ds) - 1)) * 10 + (ds[Len(ds)] - 48)

\* A JSON number: (-?(0|[1-9]\d*))(\.\d+)?([eE][-+]?\d+)?
\* The position after the integer part whose digits start at j.
IntEnd(t, j) ==
    IF j > Len(t) \/ ~IsDigit(t[j]) THEN j
    ELSE IF t[j] = 48 THEN j + 1 ELSE DigitsEnd(t, j)

\* The position after the fraction, if one starts at k.
FracEnd(t, k) ==
    IF k <= Len(t) /\ t[k] = 46 /\ DigitsEnd(t, k + 1) > k + 1
    THEN DigitsEnd(t, k + 1) ELSE k

\* Where the digits of an exponent that starts at f would start.
ExpDigits(t, f) ==
    IF f + 1 <= Len(t) /\ t[f + 1] \in {43, 45} THEN f + 2 ELSE f + 1

\* The position after the exponent, if one starts at f.
ExpEnd(t, f) ==
    IF f <= Len(t) /\ t[f] \in {101, 69} /\ DigitsEnd(t, ExpDigits(t, f)) > ExpDigits(t, f)
    THEN DigitsEnd(t, ExpDigits(t, f)) ELSE f

\* The number that starts at i, its digits at j, its integer part ending
\* before k and the whole before e: one with a fraction or an exponent is a
\* float.
NumberAt(t, i, j, k, e) ==
    IF k = j THEN ParseFail
    ELSE IF e > k THEN [ok |-> TRUE, v |-> JFloat(SubSeq(t, i, e - 1)), i |-> e]
    ELSE [ok |-> TRUE,
          v |-> JInt(IF t[i] = 45 THEN 0 - DigitsVal(SubSeq(t, j, k - 1))
                     ELSE DigitsVal(SubSeq(t, j, k - 1))),
          i |-> k]

ScanNumberInt(t, i, j, k) == NumberAt(t, i, j, k, ExpEnd(t, FracEnd(t, k)))

ScanNumber(t, i) ==
    IF t[i] = 45 THEN ScanNumberInt(t, i, i + 1, IntEnd(t, i + 1))
    ELSE ScanNumberInt(t, i, i, IntEnd(t, i))

WrapStr(r) == IF r.ok THEN [r EXCEPT !.v = JStr(r.v)] ELSE ParseFail

\* The list r, with the value x put before its elements.
PrependElem(x, r) ==
    IF r.ok THEN [r EXCEPT !.v = JList(<<x.v>> \o Val(r.v))] ELSE ParseFail

\* The dict r, with the pair of key k and value x put before its pairs; of
\* two pairs with one key the later one's value is kept.
PrependPair(k, x, r) ==
    IF r.ok THEN [r EXCEPT !.v = JDict(DictUpdate(<< <<k.v, x.v>> >>, Val(r.v)))]
    ELSE ParseFail

RECURSIVE ScanValue(_, _)
RECURSIVE ScanArray(_, _)
RECURSIVE ScanObject(_, _)

\* An array after its element x and a comma: n is where the next one starts.
ArrayRest(t, x, n) ==
    IF n > Len(t) \/ t[n] = 93 THEN ParseFail
    ELSE PrependElem(x, ScanArray(t, n))

\* An array after its element x: at j stands "]" or a comma.
ArrayNext(t, x, j) ==
    IF j > Len(t) THEN ParseFail
    ELSE IF t[j] = 93 THEN [ok |-> TRUE, v |-> JList(<<x.v>>), i |-> j + 1]
    ELSE IF t[j] # 44 THEN ParseFail
    ELSE ArrayRest(t, x, SkipWs(t, j + 1))

ArrayAfter(t, x) == IF ~x.ok THEN ParseFail ELSE ArrayNext(t, x, SkipWs(t, x.i))

\* The elements of an array from position i (after "[" and white space) on,
\* as a list value.
ScanArray(t, i) ==
    IF i > Len(t) THEN ParseFail
    ELSE IF t[i] = 93 THEN [ok |-> TRUE, v |-> JList(<<>>), i |-> i + 1]
    ELSE ArrayAfter(t, ScanValue(t, i))

\* An object after the pair of k and x and a comma: at n the next key starts.
ObjectRest(t, k, x, n) ==
    IF n > Len(t) \/ t[n] # 34 THEN ParseFail
    ELSE PrependPair(k, x, ScanObject(t, n))

\* An object after the pair of k and x: at j stands "}" or a comma.
ObjectNext(t, k, x, j) ==
    IF j > Len(t) THEN ParseFail
    ELSE IF t[j] = 125
        THEN [ok |-> TRUE, v |-> JDict(<< <<k.v, x.v>> >>), i |-> j + 1]
    ELSE IF t[j] # 44 THEN ParseFail
    ELSE ObjectRest(t, k, x, SkipWs(t, j + 1))

ObjectValue(t, k, x) ==
    IF ~x.ok THEN ParseFail ELSE ObjectNext(t, k, x, SkipWs(t, x.i))

\* An object after its key k: at c stands the colon.
ObjectColon(t, k, c) ==
    IF c > Len(t) \/ t[c] # 58 THEN ParseFail
    ELSE ObjectValue(t, k, ScanValue(t, SkipWs(t, c + 1)))

ObjectKey(t, k) == IF ~k.ok THEN ParseFail ELSE ObjectColon(t, k, SkipWs(t, k.i))

\* The pairs of an object from position i (after "{" and white space) on, as
\* a dict value.
ScanObject(t, i) ==
    IF i > Len(t) THEN ParseFail
    ELSE IF t[i] = 125 THEN [ok |-> TRUE, v |-> JDict(<<>>), i |-> i + 1]
    ELSE IF t[i] # 34 THEN ParseFail
    ELSE ObjectKey(t, ScanString(t, i + 1))

\* The JSON value that starts at position i of t.
ScanValue(t, i) ==
    IF i > Len(t) THEN ParseFail
    ELSE IF t[i] = 34 THEN WrapStr(ScanString(t, i + 1))
    ELSE IF t[i] = 123 THEN ScanObject(t, SkipWs(t, i + 1))
    ELSE IF t[i] = 91 THEN ScanArray(t, SkipWs(t, i + 1))
    ELSE IF Matches(t, i, <<110, 117, 108, 108>>)
        THEN [ok |-> TRUE, v |-> JNull, i |-> i + 4]
    ELSE IF Matches(t, i, <<116, 114, 117, 101>>)
        THEN [ok |-> TRUE, v |-> JBool(TRUE), i |-> i + 4]
    ELSE IF Matches(t, i, <<102, 97, 108, 115, 101>>)
        THEN [ok |-> TRUE, v |-> JBool(FALSE), i |-> i + 5]
    ELSE IF t[i] = 45 \/ IsDigit(t[i]) THEN ScanNumber(t, i)
    ELSE ParseFail

\* The one value r read from the text t: only white space may follow it.
LoadsValue(t, r) ==
    IF ~r.ok \/ SkipWs(t, r.i) # Len(t) + 1 THEN [ok |-> FALSE, v |-> JNull]
    ELSE [ok |-> TRUE, v |-> r.v]

LoadsText(d) ==
    IF ~d.ok THEN [ok |-> FALSE, v |-> JNull]
    ELSE LoadsValue(d.s, ScanValue(d.s, SkipWs(d.s, 1)))

\* json.loads(b) of a byte string: the bytes are decoded as UTF-8 and one
\* value is read. ok is FALSE where it raises.
JsonLoads(b) == LoadsText(Utf8Decode(b, 1))

\* --------------------------------------------------- the script's constants

\* b'pandas', the key under which from_pandas stores its own metadata.
PandasKey == <<112, 97, 110, 100, 97, 115>>

\* 'weatherapp.iot'
WeatherAppKey == <<119, 101, 97, 116, 104, 101, 114, 97, 112, 112, 46, 105, 111, 116>>

\* {'user': 'Wáng Fāng', 'coord': '55.9533° N, 3.1883° W',
\*  'time': '2020-10-17T03:59:59+0000'}
ExampleContent ==
    JDict(<< <<<<117, 115, 101, 114>>,
               JStr(<<87, 225, 110, 103, 32, 70, 257, 110, 103>>)>>,
             <<<<99, 111, 111, 114, 100>>,
               JStr(<<53, 53, 46, 57, 53, 51, 51, 176, 32, 78, 44, 32,
                      51, 46, 49, 56, 56, 51, 176, 32, 87>>)>>,
             <<<<116, 105, 109, 101>>,
               JStr(<<50, 48, 50, 48, 45, 49, 48, 45, 49, 55, 84, 48, 51, 58,
                      53, 57, 58, 53, 57, 43, 48, 48, 48, 48>>)>> >>)

\* The example DataFrame: columns temp and rain (float64, here in tenths)
\* and a DatetimeIndex named date (here as yyyymmdd).
ExampleDf ==
    [columns |-> <<[name |-> <<116, 101, 109, 112>>,
                    values |-> <<121, 110, 130, 100, 100>>],
                   [name |-> <<114, 97, 105, 110>>,
                    values |-> <<92, 100, 22, 2, 4>>]>>,
     index |-> [name |-> <<100, 97, 116, 101>>,
                values |-> <<20201012, 20201013, 20201014, 20201015, 20201016>>]]

\* ----------------------------------------------------- pandas <-> Arrow

\* 'index_columns' and 'columns', two keys of the pandas metadata.
IndexColumnsKey == <<105, 110, 100, 101, 120, 95, 99, 111, 108, 117, 109, 110, 115>>
ColumnsKey == <<99, 111, 108, 117, 109, 110, 115>>

\* The first n rows of a DataFrame.
FirstRows(d, n) ==
    [columns |-> [i \in 1..Len(d.columns) |->
                     [d.columns[i] EXCEPT !.values = SubSeq(@, 1, n)]],
     index |-> [d.index EXCEPT !.values = SubSeq(@, 1, n)]]

\* The dict from_pandas stores, JSON-encoded, under b'pandas': which columns
\* of the table hold the index, and the table's columns.
PandasMetadata(d) ==
    JDict(<< <<IndexColumnsKey, JList(<<JStr(d.index.name)>>)>>,
             <<ColumnsKey,
               JList([i \in 1..Len(d.columns) + 1 |->
                         IF i <= Len(d.columns) THEN JStr(d.columns[i].name)
                         ELSE JStr(d.index.name)])>> >>)

\* pa.Table.from_pandas(d): the columns, the index as one more column, and
\* the schema metadata {b'pandas': ...}.
FromPandas(d) ==
    [columns |-> Append(d.columns, d.index),
     metadata |-> << <<PandasKey, StrEncode(JsonDumps(PandasMetadata(d)).s)>> >>]

\* The index of a DataFrame built from a table without pandas metadata.
RangeIndex(n) == [name |-> <<>>, values |-> [i \in 1..n |-> i - 1]]

NoDf == [columns |-> <<>>, index |-> RangeIndex(0)]

\* The column names a decoded 'index_columns' entry lists.
IndexNames(ic) ==
    IF Kind(ic) # "list" THEN {}
    ELSE {Val(x) : x \in {y \in {Val(ic)[i] : i \in 1..Len(Val(ic))} : Kind(y) = "str"}}

\* The DataFrame of table t whose index is its one column named in names.
WithIndex(t, names) ==
    LET IsIndex(c) == c.name \in names
        IsData(c) == c.name \notin names
    IN IF Len(SelectSeq(t.columns, IsIndex)) # 1 THEN [ok |-> FALSE, df |-> NoDf]
       ELSE [ok |-> TRUE,
             df |-> [columns |-> SelectSeq(t.columns, IsData),
                     index |-> SelectSeq(t.columns, IsIndex)[1]]]

\* The DataFrame of table t under the decoded pandas metadata p.
WithPandasMetadata(t, p) ==
    IF ~p.ok \/ Kind(p.v) # "dict" THEN [ok |-> FALSE, df |-> NoDf]
    ELSE IF ~DictHas(Val(p.v), IndexColumnsKey) THEN [ok |-> FALSE, df |-> NoDf]
    ELSE WithIndex(t, IndexNames(DictValue(Val(p.v), IndexColumnsKey)))

\* table.to_pandas(): with pandas metadata the columns it names as index
\* columns become the index again; without, every column stays a column.
ToPandas(t) ==
    IF ~DictHas(t.metadata, PandasKey)
    THEN [ok |-> TRUE,
          df |-> [columns |-> t.columns,
                  index |-> RangeIndex(IF t.columns = <<>> THEN 0
                                       ELSE Len(t.columns[1].values))]]
    ELSE WithPandasMetadata(t, JsonLoads(DictValue(t.metadata, PandasKey)))

\* ------------------------------------------------------ Arrow <-> Parquet

\* The compression methods the written file may use.
Codecs == {"NONE", "SNAPPY", "GZIP"}

\* The length of the run of equal values vs starts with.
RunLen(vs) ==
    CHOOSE n \in 1..Len(vs) :
        /\ \A i \in 1..n : vs[i] = vs[1]
        /\ n = Len(vs) \/ vs[n + 1] # vs[1]

RECURSIVE RunLength(_)
\* Run-length coding: <<value, count, value, count, ...>>.
RunLength(vs) ==
    IF vs = <<>> THEN <<>>
    ELSE <<vs[1], RunLen(vs)>> \o RunLength(SubSeq(vs, RunLen(vs) + 1, Len(vs)))

RECURSIVE RunExpand(_)
RunExpand(rs) ==
    IF Len(rs) < 2 THEN <<>>
    ELSE [i \in 1..rs[2] |-> rs[1]] \o RunExpand(SubSeq(rs, 3, Len(rs)))

\* Delta coding: the first value, then each value's difference to the one
\* before it.
Delta(vs) == [i \in 1..Len(vs) |-> IF i = 1 THEN vs[1] ELSE vs[i] - vs[i - 1]]

RECURSIVE Undelta(_)
Undelta(ds) ==
    IF ds = <<>> THEN <<>>
    ELSE LET init == Undelta(SubSeq(ds, 1, Len(ds) - 1))
         IN Append(init, IF init = <<>> THEN ds[1] ELSE init[Len(init)] + ds[Len(ds)])

\* A lossy decoder: a run comes back as a single value.
DecompressLossy(c, data) ==
    IF c = "GZIP" THEN [i \in 1..(Len(data) \div 2) |-> data[2 * i - 1]]
    ELSE IF c = "SNAPPY" THEN Undelta(data)
    ELSE data

\* A column's values as the page of a file compressed with method c holds
\* them. Each method is lossless; the three differ in the stored form.
Compress(c, vs) ==
    IF c = "GZIP" THEN RunLength(vs)
    ELSE IF c = "SNAPPY" THEN Delta(vs)
    ELSE vs

Decompress(c, data) ==
    IF c = "GZIP" THEN RunExpand(data)
    ELSE IF c = "SNAPPY" THEN Undelta(data)
    ELSE data

\* No file at the path example.parquet.
NoFile == [exists |-> FALSE, codec |-> "", pages |-> <<>>, kv |-> <<>>]

NoTable == [columns |-> <<>>, metadata |-> <<>>]

\* pq.write_table(t, 'example.parquet', compression=c): the file holds the
\* compressed columns and the schema metadata as key-value pairs; a method
\* the library does not know raises.
PqWriteTable(t, c) ==
    IF c \notin Codecs THEN [ok |-> FALSE, file |-> NoFile]
    ELSE [ok |-> TRUE,
          file |-> [exists |-> TRUE, codec |-> c,
                    pages |-> [i \in 1..Len(t.columns) |->
                                  [name |-> t.columns[i].name,
                                   data |-> Compress(c, t.columns[i].values)]],
                    kv |-> t.metadata]]

\* pq.read_table('example.parquet'): raises when there is no file.
PqReadTable(f) ==
    IF ~f.exists THEN [ok |-> FALSE, table |-> NoTable]
    ELSE [ok |-> TRUE,
          table |-> [columns |-> [i \in 1..Len(f.pages) |->
                                     [name |-> f.pages[i].name,
                                      values |-> Decompress(f.codec, f.pages[i].data)]],
                     metadata |-> f.kv]]

\* ------------------------------------------------------------ the merge

\* {**existing, key: value}: the new entry stored last.
MergeNewWins(existing, key, value) == DictUpdate(existing, << <<key, value>> >>)

\* dict(existing): the new entry forgotten.
MergeNoEntry(existing, key, value) == existing

\* {key: value}: the existing metadata forgotten.
MergeNoExisting(existing, key, value) == << <<key, value>> >>

\* {key: value, **existing}: the new entry stored first, then every item of
\* the existing metadata over it.
MergeMeta(existing, key, value) == DictUpdate(<< <<key, value>> >>, existing)

\* ------------------------------------------------------------ the inputs

\* Longest schema metadata mapping drawn as the input of a merge or a lookup.
MaxMetaLen == 2

\* u, the quote, the backslash, a line feed, á (2 bytes in UTF-8), the euro
\* sign (3 bytes) and U+1F600 (4 bytes, a surrogate pair in JSON).
Alphabet == {117, 34, 92, 10, 225, 8364, 128512}

\* Every text over the alphabet of at most n characters.
Texts(n) == UNION {[1..k -> Alphabet] : k \in 0..n}

\* The values drawn as elements of a list and as values of a dict.
Elems ==
    {JStr(<<34, 225>>), JInt(0 - 12), JBool(TRUE), JList(<<JNull>>),
     JDict(<< <<<<117>>, JStr(<<128512>>)>> >>), JObj}

\* The custom metadata records drawn: every kind of JSON value, the script's
\* own record, and records json.dumps raises on.
Records ==
    {JStr(s) : s \in Texts(MaxStrLen)}
    \cup {JInt(n) : n \in {0 - 120, 0, 7, 1000}}
    \cup {JBool(TRUE), JBool(FALSE), JNull, JObj, ExampleContent}
    \cup {JList(xs) : xs \in UNION {[1..k -> Elems] : k \in 0..MaxListLen}}
    \cup {JDict(<< <<k, x>> >>) : k \in Texts(1), x \in Elems}
    \cup {JDict(<< <<<<117>>, x>>, <<<<225>>, y>> >>) : x, y \in Elems}

\* The DataFrames drawn: the example's, whole and cut to its first rows.
DataFrames == {FirstRows(ExampleDf, n) : n \in {3, 5}}

\* The values drawn for compression=: the methods the library knows and one
\* it raises on.
CompressionArgs == Codecs \cup {"LZO"}

\* The keys and the values of the schema metadata mappings drawn as the input
\* of a merge or a lookup: well-formed JSON and one value that is not.
MetaKeys == {PandasKey, StrEncode(WeatherAppKey), <<120>>}

MetaValues ==
    {StrEncode(JsonDumps(JDict(<<>>)).s), StrEncode(JsonDumps(JStr(<<225>>)).s),
     <<123>>}

MetaDicts ==
    {d \in UNION {[1..k -> MetaKeys \X MetaValues] : k \in 0..MaxMetaLen} :
        UniqueKeys(d)}

\* The namespaced keys drawn: one is the library's own key, one is never a
\* key of a mapping drawn.
NamespacedKeys == {PandasKey, WeatherAppKey, <<121>>}

\* -------------------------------------------------------------- the state

VARIABLES
    pc,                   \* the statement the script is at
    err,                  \* the exception that ended the script
    df,                   \* the DataFrame (lines 10-19)
    custom_meta_key,      \* line 22
    custom_meta_content,  \* lines 23-27
    compression,          \* the compression= argument of line 59
    tables,               \* the Arrow tables created so far, each immutable
    table,                \* the table the variable `table` is bound to
    pandas_meta,          \* line 37
    custom_meta_json,     \* line 43
    existing_meta,        \* line 48
    combined_meta,        \* lines 49-52
    file,                 \* the file example.parquet
    restored_table,       \* line 62
    restored_df,          \* line 65
    restored_meta_json,   \* line 68
    restored_meta         \* line 71

inputs == <<df, custom_meta_key, custom_meta_content, compression>>

vars == <<pc, err, df, custom_meta_key, custom_meta_content, compression,
          tables, table, pandas_meta, custom_meta_json, existing_meta,
          combined_meta, file, restored_table, restored_df,
          restored_meta_json, restored_meta>>

NoErr == [at |-> "", kind |-> ""]

\* The statements in the script's order.
Steps == <<"from_pandas", "loads_pandas", "dumps", "get_existing", "merge",
           "replace", "write", "read", "to_pandas", "lookup", "loads", "done",
           "error">>

StepNo(p) == CHOOSE i \in 1..Len(Steps) : Steps[i] = p

Following(p) == Steps[StepNo(p) + 1]

\* An exception handled by skipping the statement that raised it.
RaiseSwallowed(kind) ==
    /\ pc' = Following(pc)
    /\ err' = [at |-> pc, kind |-> kind]

\* An exception nothing catches: the script ends at the statement that raised.
Raise(kind) ==
    /\ pc' = "error"
    /\ err' = [at |-> pc, kind |-> kind]

\* The statement succeeded.
Proceed ==
    /\ pc' = Following(pc)
    /\ err' = err

Init ==
    /\ pc = "from_pandas"
    /\ err = NoErr
    /\ df \in DataFrames
    /\ custom_meta_key = WeatherAppKey
    /\ custom_meta_content \in Records
    /\ compression \in CompressionArgs
    /\ tables = <<>>
    /\ table = 0
    /\ pandas_meta = Unset
    /\ custom_meta_json = <<>>
    /\ existing_meta = <<>>
    /\ combined_meta = <<>>
    /\ file = NoFile
    /\ restored_table = NoTable
    /\ restored_df = NoDf
    /\ restored_meta_json = <<>>
    /\ restored_meta = Unset

\* line 31: table = pa.Table.from_pandas(df)
StepFromPandas ==
    /\ pc = "from_pandas"
    /\ tables' = Append(tables, FromPandas(df))
    /\ table' = Len(tables) + 1
    /\ Proceed
    /\ UNCHANGED <<inputs, pandas_meta, custom_meta_json, existing_meta,
                   combined_meta, file, restored_table, restored_df,
                   restored_meta_json, restored_meta>>

\* line 37: pandas_meta = json.loads(table.schema.metadata[b'pandas'])
StepLoadsPandas ==
    /\ pc = "loads_pandas"
    /\ LET g == DictGetItem(tables[table].metadata, PandasKey)
           r == JsonLoads(g.v)
       IN IF ~g.ok THEN Raise("KeyError") /\ UNCHANGED pandas_meta
          ELSE IF ~r.ok THEN Raise("JSONDecodeError") /\ UNCHANGED pandas_meta
          ELSE pandas_meta' = r.v /\ Proceed
    /\ UNCHANGED <<inputs, tables, table, custom_meta_json, existing_meta,
                   combined_meta, file, restored_table, restored_df,
                   restored_meta_json, restored_meta>>

\* line 43: custom_meta_json = json.dumps(custom_meta_content)
StepDumps ==
    /\ pc = "dumps"
    /\ LET r == JsonDumps(custom_meta_content)
       IN IF r.ok THEN custom_meta_json' = r.s /\ Proceed
          ELSE Raise("TypeError") /\ UNCHANGED custom_meta_json
    /\ UNCHANGED <<inputs, tables, table, pandas_meta, existing_meta,
                   combined_meta, file, restored_table, restored_df,
                   restored_meta_json, restored_meta>>

\* line 48: existing_meta = table.schema.metadata
StepGetExisting ==
    /\ pc = "get_existing"
    /\ existing_meta' = tables[table].metadata
    /\ Proceed
    /\ UNCHANGED <<inputs, tables, table, pandas_meta, custom_meta_json,
                   combined_meta, file, restored_table, restored_df,
                   restored_meta_json, restored_meta>>

\* lines 49-52: combined_meta = {custom_meta_key.encode():
\* custom_meta_json.encode(), **existing_meta}
StepMerge ==
    /\ pc = "merge"
    /\ combined_meta' = MergeMeta(existing_meta, StrEncode(custom_meta_key),
                                  StrEncode(custom_meta_json))
    /\ Proceed
    /\ UNCHANGED <<inputs, tables, table, pandas_meta, custom_meta_json,
                   existing_meta, file, restored_table, restored_df,
                   restored_meta_json, restored_meta>>

\* The table changed in place, not copied.
StepReplaceInPlace ==
    /\ pc = "replace"
    /\ tables' = [tables EXCEPT ![table].metadata = combined_meta]
    /\ table' = table
    /\ Proceed
    /\ UNCHANGED <<inputs, pandas_meta, custom_meta_json, existing_meta,
                   combined_meta, file, restored_table, restored_df,
                   restored_meta_json, restored_meta>>

\* The new table created and dropped: `table` is not bound to it.
StepReplaceNotBound ==
    /\ pc = "replace"
    /\ tables' = Append(tables, [tables[table] EXCEPT !.metadata = combined_meta])
    /\ table' = table
    /\ Proceed
    /\ UNCHANGED <<inputs, pandas_meta, custom_meta_json, existing_meta,
                   combined_meta, file, restored_table, restored_df,
                   restored_meta_json, restored_meta>>

\* line 56: table = table.replace_schema_metadata(combined_meta): a new table
\* with the columns of the old one and the metadata given; `table` is bound
\* to the new one.
StepReplace ==
    /\ pc = "replace"
    /\ tables' = Append(tables, [tables[table] EXCEPT !.metadata = combined_meta])
    /\ table' = Len(tables) + 1
    /\ Proceed
    /\ UNCHANGED <<inputs, pandas_meta, custom_meta_json, existing_meta,
                   combined_meta, file, restored_table, restored_df,
                   restored_meta_json, restored_meta>>

\* line 59: pq.write_table(table, 'example.parquet', compression=...); the
\* file system may refuse the write.
StepWrite ==
    /\ pc = "write"
    /\ \E io \in BOOLEAN :
          LET r == PqWriteTable(tables[table], compression)
          IN IF ~io THEN Raise("OSError") /\ UNCHANGED file
             ELSE IF ~r.ok THEN Raise("ArrowException") /\ UNCHANGED file
             ELSE file' = r.file /\ Proceed
    /\ UNCHANGED <<inputs, tables, table, pandas_meta, custom_meta_json,
                   existing_meta, combined_meta, restored_table, restored_df,
                   restored_meta_json, restored_meta>>

\* line 62: restored_table = pq.read_table('example.parquet'); the file
\* system may refuse the read.
StepRead ==
    /\ pc = "read"
    /\ \E io \in BOOLEAN :
          LET r == PqReadTable(file)
          IN IF ~io THEN Raise("OSError") /\ UNCHANGED restored_table
             ELSE IF ~r.ok THEN Raise("FileNotFoundError") /\ UNCHANGED restored_table
             ELSE restored_table' = r.table /\ Proceed
    /\ UNCHANGED <<inputs, tables, table, pandas_meta, custom_meta_json,
                   existing_meta, combined_meta, file, restored_df,
                   restored_meta_json, restored_meta>>

\* line 65: restored_df = restored_table.to_pandas()
StepToPandas ==
    /\ pc = "to_pandas"
    /\ LET r == ToPandas(restored_table)
       IN IF r.ok THEN restored_df' = r.df /\ Proceed
          ELSE Raise("ValueError") /\ UNCHANGED restored_df
    /\ UNCHANGED <<inputs, tables, table, pandas_meta, custom_meta_json,
                   existing_meta, combined_meta, file, restored_table,
                   restored_meta_json, restored_meta>>

\* line 68: restored_meta_json =
\* restored_table.schema.metadata[custom_meta_key.encode()]
StepLookup ==
    /\ pc = "lookup"
    /\ LET r == DictGetItem(restored_table.metadata, StrEncode(custom_meta_key))
       IN IF r.ok THEN restored_meta_json' = r.v /\ Proceed
          ELSE Raise("KeyError") /\ UNCHANGED restored_meta_json
    /\ UNCHANGED <<inputs, tables, table, pandas_meta, custom_meta_json,
                   existing_meta, combined_meta, file, restored_table,
                   restored_df, restored_meta>>

\* line 71: restored_meta = json.loads(restored_meta_json)
StepLoads ==
    /\ pc = "loads"
    /\ LET r == JsonLoads(restored_meta_json)
       IN IF r.ok THEN restored_meta' = r.v /\ Proceed
          ELSE Raise("JSONDecodeError") /\ UNCHANGED restored_meta
    /\ UNCHANGED <<inputs, tables, table, pandas_meta, custom_meta_json,
                   existing_meta, combined_meta, file, restored_table,
                   restored_df, restored_meta_json>>

Next ==
    \/ StepFromPandas
    \/ StepLoadsPandas
    \/ StepDumps
    \/ StepGetExisting
    \/ StepMerge
    \/ StepReplace
    \/ StepWrite
    \/ StepRead
    \/ StepToPandas
    \/ StepLookup
    \/ StepLoads

\* The script, run once from its first statement.
Spec == Init /\ [][Next]_vars

\* The merge (lines 48-56) on a table with any schema metadata and under any
\* namespaced key, and the restore (lines 68-71) from a table with any schema
\* metadata.
FnInit ==
    /\ err = NoErr
    /\ df = ExampleDf
    /\ custom_meta_key \in NamespacedKeys
    /\ custom_meta_content \in {ExampleContent, JStr(<<225>>)}
    /\ compression = "GZIP"
    /\ pandas_meta = Unset
    /\ custom_meta_json = JsonDumps(custom_meta_content).s
    /\ existing_meta = <<>>
    /\ combined_meta = <<>>
    /\ file = NoFile
    /\ restored_df = NoDf
    /\ restored_meta_json = <<>>
    /\ restored_meta = Unset
    /\ \E m \in MetaDicts :
          \/ /\ pc = "get_existing"
             /\ tables = <<[FromPandas(df) EXCEPT !.metadata = m]>>
             /\ table = 1
             /\ restored_table = NoTable
          \/ /\ pc = "lookup"
             /\ tables = <<>>
             /\ table = 0
             /\ restored_table = [FromPandas(df) EXCEPT !.metadata = m]

FnNext ==
    \/ StepGetExisting
    \/ StepMerge
    \/ StepReplace
    \/ StepLookup
    \/ StepLoads

FnSpec == FnInit /\ [][FnNext]_vars

\* ------------------------------------------------------------ the claims

\* The namespaced key and the encoded record as the merge stores them.
EncodedKey == StrEncode(custom_meta_key)

EncodedValue == StrEncode(custom_meta_json)

\* The merge (lines 49-52) has run and nothing after it has changed its
\* result.
Merged == pc \in {"replace", "write"}

AllAscii(s) == \A i \in 1..Len(s) : s[i] < 128

\* C1, as stated: for every existing mapping, also one that already holds the
\* namespaced key, the merged mapping maps the namespaced key to the new
\* encoded value and contains every other key of the existing mapping.
C1_NewValueAlways ==
    Merged =>
        /\ DictHas(combined_meta, EncodedKey)
        /\ DictValue(combined_meta, EncodedKey) = EncodedValue
        /\ \A k \in DictKeys(existing_meta) \ {EncodedKey} : DictHas(combined_meta, k)

\* C1, amended: the merged mapping contains every key of the existing mapping
\* and the namespaced key; it maps the namespaced key to the new encoded
\* value when the existing mapping does not hold that key, and to the
\* existing mapping's value when it does.
C1_NewValueUnlessPresent ==
    Merged =>
        /\ DictHas(combined_meta, EncodedKey)
        /\ DictValue(combined_meta, EncodedKey) =
               IF DictHas(existing_meta, EncodedKey)
               THEN DictValue(existing_meta, EncodedKey)
               ELSE EncodedValue
        /\ \A k \in DictKeys(existing_meta) : DictHas(combined_meta, k)

\* A merge into a mapping that holds the namespaced key with another value.
C1_Witness ==
    /\ Merged
    /\ DictHas(existing_meta, EncodedKey)
    /\ DictValue(existing_meta, EncodedKey) # EncodedValue

C3_RoundTrip ==
    pc = "done" => restored_df = df /\ restored_meta = custom_meta_content

\* The example's DataFrame and record, restored.
C3_Witness ==
    /\ pc = "done"
    /\ df = ExampleDf
    /\ custom_meta_content = ExampleContent
    /\ restored_meta = ExampleContent

\* C4: the lookup (line 68) of a namespaced key the restored schema metadata
\* does not hold ends the script with a KeyError at that statement: no
\* value is bound to restored_meta_json or restored_meta, and from the error
\* no statement runs, so nothing is decoded.
C4_MissingKeyRaises ==
    [][/\ pc # "error"
       /\ (pc = "lookup" /\ ~DictHas(restored_table.metadata, EncodedKey)) =>
             /\ pc' = "error"
             /\ err' = [at |-> "lookup", kind |-> "KeyError"]
             /\ restored_meta_json' = NoBytes
             /\ restored_meta' = Unset]_vars

\* The script ended by the lookup of a key that was never written.
C4_Witness ==
    /\ pc = "error"
    /\ err = [at |-> "lookup", kind |-> "KeyError"]
    /\ ~DictHas(restored_table.metadata, EncodedKey)
    /\ restored_meta = Unset

C6_MetadataPreserved ==
    restored_table # NoTable =>
        /\ restored_table.metadata = tables[table].metadata
        /\ restored_table.metadata = combined_meta
        /\ restored_table.metadata = file.kv

\* A table read back with the pandas entry and the custom entry.
C6_Witness ==
    /\ pc = "to_pandas"
    /\ restored_table # NoTable
    /\ DictKeys(restored_table.metadata) = {PandasKey, EncodedKey}

\* The table read back from the file written with compression method c.
ReadBack(c) == PqReadTable(PqWriteTable(tables[table], c).file).table

\* C7: whatever compression method the file is written with, the same table
\* and record are recovered: the table a run reads back, the DataFrame and
\* the record it restores are those every other method gives for the table
\* written.
C7_CompressionIndependent ==
    \A c \in Codecs :
        /\ pc = "to_pandas" => restored_table = ReadBack(c)
        /\ pc = "lookup" => restored_df = ToPandas(ReadBack(c)).df
        /\ pc = "done" =>
              restored_meta = JsonLoads(DictValue(ReadBack(c).metadata, EncodedKey)).v

\* A run to the end whose file holds a column with a run of equal values,
\* written with a method other than the example's.
C7_Witness ==
    /\ pc = "done"
    /\ compression = "SNAPPY"
    /\ df = ExampleDf
    /\ file.pages # PqWriteTable(tables[table], "GZIP").file.pages

\* C8: the replace (line 56) creates a new table with the merged mapping as
\* schema metadata and the columns of the table it was called on, and binds
\* `table` to it; the merge and the replace leave the table converted from
\* the DataFrame and the mapping read from it as they were.
C8_ReplaceIsImmutable ==
    [][/\ pc \in {"merge", "replace"} =>
             /\ tables'[1] = tables[1]
             /\ existing_meta' = existing_meta
             /\ existing_meta' = tables'[1].metadata
       /\ pc = "replace" =>
             /\ table' # table
             /\ tables'[table'].metadata = combined_meta
             /\ tables'[table'].columns = tables[table].columns]_vars

\* After the replace: two tables, `table` bound to the second.
C8_Witness ==
    /\ pc = "write"
    /\ Len(tables) = 2
    /\ table = 2
    /\ tables[1].metadata # tables[2].metadata

\* Whether a schema metadata mapping has unique keys and holds the pandas
\* entry of the table the conversion made (tables[1]).
HoldsPandasEntry(m) ==
    /\ UniqueKeys(m)
    /\ DictHas(m, PandasKey)
    /\ DictValue(m, PandasKey) = DictValue(tables[1].metadata, PandasKey)

\* C9: from the conversion on, the schema metadata of the table `table` is
\* bound to, and of the table read back, has unique keys and holds the
\* pandas entry with the value the conversion gave it.
C9_PandasEntryKept ==
    /\ table # 0 => HoldsPandasEntry(tables[table].metadata)
    /\ restored_table # NoTable => HoldsPandasEntry(restored_table.metadata)

\* The table read back, holding the pandas entry beside the custom one.
C9_Witness ==
    /\ pc = "done"
    /\ Len(restored_table.metadata) = 2
    /\ table = 2

\* Whether every variable a statement from `at` on assigns is unassigned.
NothingAssignedFrom(at) ==
    /\ StepNo(at) <= StepNo("dumps") => custom_meta_json = <<>>
    /\ StepNo(at) <= StepNo("merge") => combined_meta = <<>>
    /\ StepNo(at) <= StepNo("write") => file = NoFile
    /\ StepNo(at) <= StepNo("read") => restored_table = NoTable
    /\ StepNo(at) <= StepNo("to_pandas") => restored_df = NoDf
    /\ StepNo(at) <= StepNo("lookup") => restored_meta_json = NoBytes
    /\ StepNo(at) <= StepNo("loads") => restored_meta = Unset

\* C10: a statement that fails ends the script in an error at that
\* statement: nothing the failed statement or a later one assigns is
\* assigned, restored_meta among them; no statement runs from the error;
\* and a statement that runs is the one after the last, never one again.
C10_ErrorsAreFatal ==
    /\ [](pc = "error" <=> err # NoErr)
    /\ [](pc = "error" => NothingAssignedFrom(err.at))
    /\ [][/\ pc # "error"
          /\ pc' = "error" => err'.at = pc
          /\ pc' # "error" => pc' = Following(pc)]_vars

\* The script ended by a read that failed after the write succeeded.
C10_Witness ==
    /\ pc = "error"
    /\ err.at = "read"
    /\ file # NoFile
    /\ restored_meta = Unset
====
